---- MODULE Spec2Model ----
(***************************************************************************)
(* PostQueue: a bounded FreeRTOS queue of heap-allocated PostItem records, *)
(* filled by post() from any caller context and drained by one worker     *)
(* task that executes each record against the HTTP transport.              *)
(*                                                                         *)
(* Threads of the model:                                                   *)
(*   - the producers, each running post() one statement at a time; the    *)
(*     first of them (Main, the sketch's setup()/loop() context) also      *)
(*     runs begin(), end(), clear() and setCallback() between its posts;   *)
(*   - the worker tasks created by xTaskCreate, each running workerTask    *)
(*     one statement at a time.                                            *)
(* Every read or write of shared state is a step of its own, so that the   *)
(* interleavings of the real (dual-core, preemptive) scheduler are the     *)
(* behaviours of the model.                                                *)
(***************************************************************************)
EXTENDS Integers, Sequences, FiniteSets, TLC

\* ---------------------------------------------------------------- bounds
Capacity == 2
MaxRecords == 3
MaxTasks == 2
NumProducers == 2
MaxHdrLen == 4

\* ------------------------------------------------------------- constants
NULL == 0

Producers == 1..NumProducers

\* The caller context that also drives the lifecycle (setup()/loop()); the
\* other producers only call post().
Main == 1
Records == 1..MaxRecords
Tasks == 1..MaxTasks

\* Status codes the transport may return from http.POST: a transport error,
\* a success and a client error.
Codes == {-1, 201, 404}

\* Response bodies a server may send.
Bodies == {"B"}

\* What http.POST and http.getString() yield for one request: a status code
\* and, when a response was received (code > 0), its body.
Transport == {[code |-> c, body |-> IF c > 0 THEN b ELSE ""] : c \in Codes, b \in Bodies}

\* The constructor's policy defaults (PostQueue.h) and the constructor's
\* initial value of _verifySSL.
DEFAULT_HTTP_TIMEOUT == 10000
DEFAULT_MAX_REDIRECTS == 5
Timeouts == {DEFAULT_HTTP_TIMEOUT, 5000}
RedirectLimits == {DEFAULT_MAX_REDIRECTS, 0}

\* The useSSL argument of the post() call that builds record r: the first and
\* every other later request go over TLS, the ones between over plain HTTP.
UseSSL(r) == r % 2 = 1

\* No policy snapshot / no transport configured.
NoPolicy == [timeout |-> 0, redirects |-> 0, verify |-> FALSE, callback |-> FALSE]
NoConf == [url |-> 0, jsonPayload |-> 0, timeout |-> 0, follow |-> FALSE, limit |-> 0,
           secure |-> FALSE, insecure |-> FALSE, headers |-> <<>>]

\* No request made / no callback invoked.
NoHttp == [code |-> 0, body |-> ""]
NoArgs == <<>>

VARIABLES
    _running,          \* bool _running
    _queue,            \* QueueHandle_t _queue: "null", "live", or "freed" (dangling)
    q,                 \* the records stored in the FreeRTOS queue, head first
    _taskHandle,       \* TaskHandle_t _taskHandle: NULL or a task
    _callback,         \* PostCallback _callback: set (TRUE) or NULL (FALSE)
    _totalProcessed,
    _totalSuccessful,
    _totalFailed,
    cpc,               \* Main: statement of begin()/end()/clear() it is at
    ppc,               \* producer -> statement of post() it is at
    pitem,             \* producer -> PostItem* item local of post()
    items,             \* record -> the fields post() stored in the PostItem
    wpc,               \* task -> statement of workerTask it is at
    witem,             \* task -> PostItem* item local of workerTask
    wcode,             \* task -> int httpCode local of processPostItem
    wsuccess,          \* task -> bool success local of processPostItem
    wresponse,         \* task -> String response local of processPostItem
    http,              \* task -> what the transport returned to performPost
    cbArgs,            \* task -> the arguments the callback was invoked with
    wpolicy,           \* task -> the policy in force when its record began execution
    wconf,             \* task -> how performPost configured the transport for the record
    _httpTimeout,      \* uint32_t _httpTimeout
    _maxRedirects,     \* uint8_t _maxRedirects
    _verifySSL,        \* bool _verifySSL
    postedUnder,       \* record -> the value of _httpTimeout when post() enqueued it (0: not enqueued)
    parse,             \* the header-parsing loop of performPost: its locals and position
    nextItem,          \* next PostItem to be allocated by new PostItem()
    nextTask,          \* next task to be created by xTaskCreate
    frees,             \* record -> number of times freePostItem released it
    taken,             \* record -> who removed it from the queue, in order
    accepted,          \* records whose post() returned true
    started,           \* records handed to processPostItem, in order
    completed,         \* records whose outcome was counted, in order
    cbCalls,           \* number of callback invocations made
    endSnap,           \* the records queued, in flight and held by the worker when the end() in progress was called,
                       \* and the records accepted when the last end() returned
    crashed            \* the firmware aborted (assert / fault)

vars == <<_running, _queue, q, _taskHandle, _callback, _totalProcessed,
          _totalSuccessful, _totalFailed, cpc, ppc, pitem, items, wpc, witem,
          wcode, wsuccess, wresponse, http, cbArgs, wpolicy, wconf, _httpTimeout,
          _maxRedirects, _verifySSL, postedUnder, parse, nextItem, nextTask, frees, taken, accepted,
          started, completed, cbCalls, endSnap, crashed>>

ctlVars == <<_running, _queue, _taskHandle, _callback, cpc, nextTask, endSnap>>
statVars == <<_totalProcessed, _totalSuccessful, _totalFailed>>
prodVars == <<ppc, pitem, items, nextItem, accepted>>
workVars == <<wpc, witem, wcode, wsuccess, wresponse, http, cbArgs, wpolicy, wconf>>
respVars == <<wresponse, http, cbArgs, wpolicy, wconf>>
polVars == <<_httpTimeout, _maxRedirects, _verifySSL>>
execVars == <<started, completed, cbCalls>>

Range(s) == {s[i] : i \in 1..Len(s)}

\* ------------------------------------------------------------ primitives
\* (variant) the free-slot count taken one too high
SpacesAvailableOffByOne(qq) == Capacity + 1 - Len(qq)

\* uxQueueSpacesAvailable on a live queue
SpacesAvailable(qq) == Capacity - Len(qq)

\* uxQueueMessagesWaiting on a live queue
MessagesWaiting(qq) == Len(qq)

\* (variant) a send that trusts the caller's earlier space check
QueueSendOkUnchecked(qq) == TRUE

\* (variant) a send that keeps one slot in reserve
QueueSendOkReserve(qq) == Len(qq) < Capacity - 1

\* xQueueSend(_queue, &item, 0) on a live queue: pdTRUE iff there is room
QueueSendOk(qq) == Len(qq) < Capacity

\* freePostItem(item)
FreePostItem(f, r) == [f EXCEPT ![r] = @ + 1]

\* (variant) every received response taken for a success
IsSuccessAnyResponse(code) == code > 0

\* the 2xx test of performPost
IsSuccess(code) == code >= 200 /\ code < 300

\* the response performPost hands back: http.getString() iff httpCode > 0,
\* else the empty String processPostItem initialised it with
ResponseOf(h) == IF h.code > 0 THEN h.body ELSE ""

\* getQueueSize()
getQueueSize == IF _queue = "null" THEN 0 ELSE MessagesWaiting(q)

\* isEmpty(): "return getQueueSize() == 0;"
isEmpty == getQueueSize = 0

\* isFull(): "if (_queue == NULL) return false; return uxQueueSpacesAvailable(_queue) == 0;"
isFull == IF _queue = "null" THEN FALSE ELSE SpacesAvailable(q) = 0

\* getStats()
getStats == <<_totalProcessed, _totalSuccessful, _totalFailed>>

Alive(t) == wpc[t] \notin {"none", "deleted"}

\* the records a worker task is executing: processPostItem has counted them
\* as processed and performPost has not returned
InFlight == {witem[t] : t \in {u \in Tasks : wpc[u] = "perform"}}

\* the records the worker tasks have dequeued and not yet released
Held == {witem[t] : t \in {u \in Tasks : Alive(u) /\ witem[u] # NULL}}

NoSnap == [queued |-> {}, inflight |-> {}, held |-> {}, before |-> {}]

\* ------------------------------------------------- custom header parsing
\* A header string is a sequence of characters; positions are 0-based as in
\* the code.
NL == "\n"
Chars == {"a", ":", " ", NL}
IsSpace(c) == c \in {" ", NL}

\* the custom-header example of the README-style format, with a malformed line
ExampleHeaders ==
    <<"X", "-", "A", ":", " ", "1", NL,
      "X", "-", "B", ":", " ", "t", "w", "o", " ", "w", "o", "r", "d", "s", NL,
      "m", "a", "l", "f", "o", "r", "m", "e", "d", "-", "l", "i", "n", "e", NL,
      "X", "-", "C", ":", "3">>

\* the customHeaders strings the parser is run on
HeaderInputs == UNION {[1..n -> Chars] : n \in 0..MaxHdrLen} \cup {ExampleHeaders}

\* The customHeaders argument of the post() call that builds record r.
HeadersOf(r) ==
    IF r % 3 = 1 THEN <<"a", ":", "a">>
    ELSE IF r % 3 = 2 THEN <<"a", NL, "a", ":", " ", "a">>
    ELSE <<>>

\* The url and jsonPayload arguments of the post() call that builds record r:
\* every call passes its own.
UrlOf(r) == r
PayloadOf(r) == r

\* A PostItem not yet populated.
NoItem == [url |-> 0, jsonPayload |-> 0, customHeaders |-> <<>>, useSSL |-> FALSE]

\* (variant) post() storing the record without its custom headers
ItemOfNoHeaders(r) ==
    [url |-> UrlOf(r), jsonPayload |-> PayloadOf(r), customHeaders |-> <<>>,
     useSSL |-> UseSSL(r)]

\* post(): "item->url = strdup(url); item->jsonPayload = strdup(jsonPayload);
\* item->customHeaders = customHeaders ? strdup(customHeaders) : NULL;
\* item->useSSL = useSSL;" (an absent header string is the empty one)
ItemOf(r) ==
    [url |-> UrlOf(r), jsonPayload |-> PayloadOf(r), customHeaders |-> HeadersOf(r),
     useSSL |-> UseSSL(r)]

\* String::indexOf(ch, from): position of the first ch at or after from, or -1
IndexOf(s, ch, from) ==
    LET hits == {i \in 0..(Len(s) - 1) : i >= from /\ s[i + 1] = ch}
    IN  IF hits = {} THEN -1 ELSE CHOOSE i \in hits : \A j \in hits : i <= j

\* String::substring(left, right): the characters at positions left..right-1
Substring(s, left, right) ==
    LET lo == IF left > right THEN right ELSE left
        hi0 == IF left > right THEN left ELSE right
        hi == IF hi0 > Len(s) THEN Len(s) ELSE hi0
    IN  IF lo >= Len(s) THEN <<>> ELSE SubSeq(s, lo + 1, hi)

\* String::trim(): leading and trailing whitespace removed
Trim(s) ==
    LET keep == {i \in 1..Len(s) : ~IsSpace(s[i])}
    IN  IF keep = {} THEN <<>>
        ELSE SubSeq(s, CHOOSE i \in keep : \A j \in keep : i <= j,
                       CHOOSE i \in keep : \A j \in keep : i >= j)

\* (variant) splitting a header line at its last colon
HeaderOfLineLastColon(headerLine) ==
    LET colons == {i \in 0..(Len(headerLine) - 1) : headerLine[i + 1] = ":"}
        colonPos == IF colons = {} THEN -1 ELSE CHOOSE i \in colons : \A j \in colons : i >= j
    IN  IF Len(headerLine) > 0 /\ colonPos > 0
          THEN <<<<Trim(Substring(headerLine, 0, colonPos)),
                   Trim(Substring(headerLine, colonPos + 1, Len(headerLine)))>>>>
          ELSE <<>>

\* the body of the loop for one trimmed line: the http.addHeader call it
\* makes, if any ("if (headerLine.length() > 0) { colonPos = indexOf(':');
\* if (colonPos > 0) { ... addHeader(headerName, headerValue); } }")
HeaderOfLine(headerLine) ==
    LET colonPos == IndexOf(headerLine, ":", 0)
    IN  IF Len(headerLine) > 0 /\ colonPos > 0
          THEN <<<<Trim(Substring(headerLine, 0, colonPos)),
                   Trim(Substring(headerLine, colonPos + 1, Len(headerLine)))>>>>
          ELSE <<>>

\* (turns counts the executions of the loop body)
NoParse == [pc |-> "idle", headers |-> <<>>, startPos |-> 0, endPos |-> 0, applied |-> <<>>,
            turns |-> 0]

\* performPost reaching "if (customHeaders != NULL && strlen(customHeaders) > 0)"
StartParse(h) == [pc |-> "guard", headers |-> h, startPos |-> 0, endPos |-> 0, applied |-> <<>>,
                  turns |-> 0]

\* the guard and the initialisation "startPos = 0; endPos = headers.indexOf('\n');"
EnterParse(st) ==
    IF Len(st.headers) > 0
      THEN [st EXCEPT !.pc = "loop", !.startPos = 0, !.endPos = IndexOf(st.headers, NL, 0)]
      ELSE [st EXCEPT !.pc = "done"]

\* (variant) the loop resuming its search at the newline it has just found
IterateParseNoAdvance(st) ==
    IF ~(st.endPos >= 0 \/ st.startPos < Len(st.headers))
      THEN [st EXCEPT !.pc = "done"]
      ELSE LET headerLine == Trim(IF st.endPos >= 0
                                    THEN Substring(st.headers, st.startPos, st.endPos)
                                    ELSE Substring(st.headers, st.startPos, Len(st.headers)))
               added == st.applied \o HeaderOfLine(headerLine)
           IN  IF st.endPos < 0
                 THEN [st EXCEPT !.pc = "done", !.applied = added, !.turns = @ + 1]
                 ELSE [st EXCEPT !.applied = added,
                                 !.turns = @ + 1,
                                 !.startPos = st.endPos,
                                 !.endPos = IndexOf(st.headers, NL, st.endPos)]

\* one evaluation of "while (endPos >= 0 || startPos < headers.length())" and,
\* when it holds, one turn of the loop body
IterateParse(st) ==
    IF ~(st.endPos >= 0 \/ st.startPos < Len(st.headers))
      THEN [st EXCEPT !.pc = "done"]
      ELSE LET headerLine == Trim(IF st.endPos >= 0
                                    THEN Substring(st.headers, st.startPos, st.endPos)
                                    ELSE Substring(st.headers, st.startPos, Len(st.headers)))
               added == st.applied \o HeaderOfLine(headerLine)
           IN  IF st.endPos < 0
                 THEN [st EXCEPT !.pc = "done", !.applied = added, !.turns = @ + 1]
                 ELSE [st EXCEPT !.applied = added,
                                 !.turns = @ + 1,
                                 !.startPos = st.endPos + 1,
                                 !.endPos = IndexOf(st.headers, NL, st.endPos + 1)]

RECURSIVE RunParse(_)
\* the whole parse, from wherever st stands to the end of the loop (st is
\* bound to its value once per turn)
RunParse(st) ==
    [x \in {st} |->
        IF x.pc = "done" THEN x
        ELSE IF x.pc = "guard" THEN RunParse(EnterParse(x))
        ELSE RunParse(IterateParse(x))][st]

\* the headers performPost adds for a customHeaders string
AppliedHeaders(h) == RunParse(StartParse(h)).applied

\* (variant) a policy frozen at the constructor's values
PolicyDefaults ==
    [timeout |-> DEFAULT_HTTP_TIMEOUT, redirects |-> DEFAULT_MAX_REDIRECTS,
     verify |-> FALSE, callback |-> _callback]

\* the policy fields as they stand
PolicyInForce ==
    [timeout |-> _httpTimeout, redirects |-> _maxRedirects, verify |-> _verifySSL,
     callback |-> _callback]

\* performPost's configuration of the transport for the fields of a PostItem
\* under policy pol: the url and payload of the request, secure client iff
\* useSSL, setInsecure() iff useSSL and not _verifySSL, setTimeout,
\* setFollowRedirects / setRedirectLimit, and the custom headers
ConfOf(pol, item) ==
    [url |-> item.url,
     jsonPayload |-> item.jsonPayload,
     timeout |-> pol.timeout,
     follow |-> pol.redirects > 0,
     limit |-> pol.redirects,
     secure |-> item.useSSL,
     insecure |-> item.useSSL /\ ~pol.verify,
     headers |-> AppliedHeaders(item.customHeaders)]

\* ------------------------------------------------------------------ Init
InitQueue ==
    /\ _running = FALSE
    /\ _queue = "null"
    /\ q = <<>>
    /\ _taskHandle = NULL
    /\ _callback = FALSE
    /\ _totalProcessed = 0
    /\ _totalSuccessful = 0
    /\ _totalFailed = 0
    /\ cpc = "idle"
    /\ ppc = [p \in Producers |-> "idle"]
    /\ pitem = [p \in Producers |-> NULL]
    /\ items = [r \in Records |-> NoItem]
    /\ wpc = [t \in Tasks |-> "none"]
    /\ witem = [t \in Tasks |-> NULL]
    /\ wcode = [t \in Tasks |-> 0]
    /\ wsuccess = [t \in Tasks |-> FALSE]
    /\ wresponse = [t \in Tasks |-> ""]
    /\ http = [t \in Tasks |-> NoHttp]
    /\ cbArgs = [t \in Tasks |-> NoArgs]
    /\ nextItem = 1
    /\ nextTask = 1
    /\ frees = [r \in Records |-> 0]
    /\ taken = [r \in Records |-> <<>>]
    /\ accepted = {}
    /\ started = <<>>
    /\ completed = <<>>
    /\ cbCalls = 0
    /\ endSnap = NoSnap
    /\ crashed = FALSE
    /\ wpolicy = [t \in Tasks |-> NoPolicy]
    /\ wconf = [t \in Tasks |-> NoConf]
    /\ _httpTimeout = DEFAULT_HTTP_TIMEOUT
    /\ _maxRedirects = DEFAULT_MAX_REDIRECTS
    /\ _verifySSL = FALSE
    /\ postedUnder = [r \in Records |-> 0]

Init ==
    /\ InitQueue
    /\ parse = NoParse

\* ------------------------------------------------------------ controller
\* (variant) begin() without its early return: a running worker is set up again
BeginAlreadyRestart ==
    /\ ~crashed
    /\ cpc = "idle"
    /\ ppc[Main] = "idle"
    /\ _running
    /\ nextTask <= MaxTasks
    /\ cpc' = "begin_queue"
    /\ UNCHANGED <<_running, _queue, q, _taskHandle, _callback, nextTask, endSnap,
                   frees, taken, crashed>>
    /\ UNCHANGED <<statVars, prodVars, workVars, execVars>>
    /\ UNCHANGED <<polVars, postedUnder, parse>>

\* begin(): "if (_running) return true;"
BeginAlready ==
    /\ ~crashed
    /\ cpc = "idle"
    /\ ppc[Main] = "idle"
    /\ _running
    /\ UNCHANGED vars
    /\ UNCHANGED <<polVars, postedUnder, parse>>

\* begin(): not running, go on to xQueueCreate
BeginCall ==
    /\ ~crashed
    /\ cpc = "idle"
    /\ ppc[Main] = "idle"
    /\ ~_running
    /\ nextTask <= MaxTasks
    /\ cpc' = "begin_queue"
    /\ UNCHANGED <<_running, _queue, q, _taskHandle, _callback, nextTask, endSnap,
                   frees, taken, crashed>>
    /\ UNCHANGED <<statVars, prodVars, workVars, execVars>>
    /\ UNCHANGED <<polVars, postedUnder, parse>>

\* begin(): _queue = xQueueCreate(...); on NULL return false
BeginCreateQueue ==
    /\ ~crashed
    /\ cpc = "begin_queue"
    /\ \/ /\ _queue' = "live"
          /\ q' = <<>>
          /\ cpc' = "begin_task"
       \/ /\ _queue' = "null"
          /\ q' = q
          /\ cpc' = "idle"
    /\ UNCHANGED <<_running, _taskHandle, _callback, nextTask, endSnap, frees,
                   taken, crashed>>
    /\ UNCHANGED <<statVars, prodVars, workVars, execVars>>
    /\ UNCHANGED <<polVars, postedUnder, parse>>

\* begin(): xTaskCreate(workerTask, ..., &_taskHandle); the new task is ready
\* to run at once, at the head of workerTask
BeginCreateTask ==
    /\ ~crashed
    /\ cpc = "begin_task"
    /\ \/ /\ wpc' = [wpc EXCEPT ![nextTask] = "check"]
          /\ _taskHandle' = nextTask
          /\ nextTask' = nextTask + 1
          /\ cpc' = "begin_run"
       \/ /\ cpc' = "begin_fail_delete"
          /\ UNCHANGED <<wpc, _taskHandle, nextTask>>
    /\ UNCHANGED <<_running, _queue, q, _callback, endSnap, frees, taken, crashed>>
    /\ UNCHANGED <<statVars, prodVars, witem, wcode, wsuccess, respVars, execVars>>
    /\ UNCHANGED <<polVars, postedUnder, parse>>

\* begin(), task creation failed: vQueueDelete(_queue)
BeginFailDelete ==
    /\ ~crashed
    /\ cpc = "begin_fail_delete"
    /\ _queue' = "freed"
    /\ q' = <<>>
    /\ taken' = [r \in Records |->
                    IF r \in Range(q) THEN Append(taken[r], "delete") ELSE taken[r]]
    /\ cpc' = "begin_fail_null"
    /\ UNCHANGED <<_running, _taskHandle, _callback, nextTask, endSnap, frees, crashed>>
    /\ UNCHANGED <<statVars, prodVars, workVars, execVars>>
    /\ UNCHANGED <<polVars, postedUnder, parse>>

\* (variant) the failure path of begin() returning with the deleted handle kept
BeginFailNullKeepHandle ==
    /\ ~crashed
    /\ cpc = "begin_fail_null"
    /\ cpc' = "idle"
    /\ UNCHANGED <<_running, _queue, q, _taskHandle, _callback, nextTask, endSnap, frees,
                   taken, crashed>>
    /\ UNCHANGED <<statVars, prodVars, workVars, execVars>>
    /\ UNCHANGED <<polVars, postedUnder, parse>>

\* begin(), task creation failed: _queue = NULL; return false
BeginFailNull ==
    /\ ~crashed
    /\ cpc = "begin_fail_null"
    /\ _queue' = "null"
    /\ cpc' = "idle"
    /\ UNCHANGED <<_running, q, _taskHandle, _callback, nextTask, endSnap, frees,
                   taken, crashed>>
    /\ UNCHANGED <<statVars, prodVars, workVars, execVars>>
    /\ UNCHANGED <<polVars, postedUnder, parse>>

\* begin(): _running = true; return true
BeginSetRunning ==
    /\ ~crashed
    /\ cpc = "begin_run"
    /\ _running' = TRUE
    /\ cpc' = "idle"
    /\ UNCHANGED <<_queue, q, _taskHandle, _callback, nextTask, endSnap, frees,
                   taken, crashed>>
    /\ UNCHANGED <<statVars, prodVars, workVars, execVars>>
    /\ UNCHANGED <<polVars, postedUnder, parse>>

\* (variant) end() without its early return: a stopped worker is torn down again
EndNotRunningTearDown ==
    /\ ~crashed
    /\ cpc = "idle"
    /\ ppc[Main] = "idle"
    /\ ~_running
    /\ cpc' = IF _queue = "null" THEN "end_task" ELSE "end_clear"
    /\ UNCHANGED <<_running, _queue, q, _taskHandle, _callback, nextTask, endSnap,
                   frees, taken, crashed>>
    /\ UNCHANGED <<statVars, prodVars, workVars, execVars>>
    /\ UNCHANGED <<polVars, postedUnder, parse>>

\* end() (also the destructor): "if (!_running) return;"
EndNotRunning ==
    /\ ~crashed
    /\ cpc = "idle"
    /\ ppc[Main] = "idle"
    /\ ~_running
    /\ UNCHANGED vars
    /\ UNCHANGED <<polVars, postedUnder, parse>>

\* (variant) end() starting the next session's statistics from zero
EndCallResetStats ==
    /\ ~crashed
    /\ cpc = "idle"
    /\ ppc[Main] = "idle"
    /\ _running
    /\ _running' = FALSE
    /\ endSnap' = [queued |-> Range(q), inflight |-> InFlight, held |-> Held,
                    before |-> endSnap.before]
    /\ cpc' = IF _queue = "null" THEN "end_task" ELSE "end_clear"
    /\ _totalProcessed' = 0
    /\ _totalSuccessful' = 0
    /\ _totalFailed' = 0
    /\ UNCHANGED <<_queue, q, _taskHandle, _callback, nextTask, frees, taken, crashed>>
    /\ UNCHANGED <<prodVars, workVars, execVars>>
    /\ UNCHANGED <<polVars, postedUnder, parse>>

\* end(): _running = false; then clear(), whose first statement tests _queue
EndCall ==
    /\ ~crashed
    /\ cpc = "idle"
    /\ ppc[Main] = "idle"
    /\ _running
    /\ _running' = FALSE
    /\ endSnap' = [queued |-> Range(q), inflight |-> InFlight, held |-> Held,
                    before |-> endSnap.before]
    /\ cpc' = IF _queue = "null" THEN "end_task" ELSE "end_clear"
    /\ UNCHANGED <<_queue, q, _taskHandle, _callback, nextTask, frees, taken, crashed>>
    /\ UNCHANGED <<statVars, prodVars, workVars, execVars>>
    /\ UNCHANGED <<polVars, postedUnder, parse>>

\* clear(): "if (_queue == NULL) return;" then enter the drain loop
ClearCall ==
    /\ ~crashed
    /\ cpc = "idle"
    /\ ppc[Main] = "idle"
    /\ cpc' = IF _queue = "null" THEN "idle" ELSE "clear_loop"
    /\ UNCHANGED <<_running, _queue, q, _taskHandle, _callback, nextTask, endSnap,
                   frees, taken, crashed>>
    /\ UNCHANGED <<statVars, prodVars, workVars, execVars>>
    /\ UNCHANGED <<polVars, postedUnder, parse>>

\* (variant) clear() dropping the records it dequeues without releasing them
ClearLoopNoFree(at, done) ==
    /\ ~crashed
    /\ cpc = at
    /\ IF q # <<>>
         THEN /\ q' = Tail(q)
              /\ taken' = [taken EXCEPT ![Head(q)] =
                              Append(@, IF at = "end_clear" THEN "end" ELSE "clear")]
              /\ cpc' = at
         ELSE /\ cpc' = done
              /\ UNCHANGED <<q, taken>>
    /\ frees' = frees
    /\ UNCHANGED <<_running, _queue, _taskHandle, _callback, nextTask, endSnap, crashed>>
    /\ UNCHANGED <<statVars, prodVars, workVars, execVars>>
    /\ UNCHANGED <<polVars, postedUnder, parse>>

\* clear(): one turn of "while (xQueueReceive(_queue, &item, 0) == pdTRUE)
\* freePostItem(item);", at statement `at`, leaving to statement `done`
ClearLoop(at, done) ==
    /\ ~crashed
    /\ cpc = at
    /\ IF q # <<>>
         THEN /\ q' = Tail(q)
              /\ taken' = [taken EXCEPT ![Head(q)] =
                              Append(@, IF at = "end_clear" THEN "end" ELSE "clear")]
              /\ frees' = FreePostItem(frees, Head(q))
              /\ cpc' = at
         ELSE /\ cpc' = done
              /\ UNCHANGED <<q, taken, frees>>
    /\ UNCHANGED <<_running, _queue, _taskHandle, _callback, nextTask, endSnap, crashed>>
    /\ UNCHANGED <<statVars, prodVars, workVars, execVars>>
    /\ UNCHANGED <<polVars, postedUnder, parse>>

ClearStep == ClearLoop("clear_loop", "idle")

EndClearStep == ClearLoop("end_clear", "end_task")

\* (variant) end() clearing the handle without deleting the task
EndDeleteTaskForgotten ==
    /\ ~crashed
    /\ cpc = "end_task"
    /\ cpc' = "end_queue"
    /\ _taskHandle' = NULL
    /\ UNCHANGED <<_running, _queue, q, _callback, nextTask, endSnap, frees, taken, crashed>>
    /\ UNCHANGED <<statVars, prodVars, workVars, execVars>>
    /\ UNCHANGED <<polVars, postedUnder, parse>>

\* end(): if (_taskHandle != NULL) { vTaskDelete(_taskHandle); _taskHandle = NULL; }
\* The task is removed wherever it stands, and its stack (item, httpCode,
\* success) with it. Deleting a task that has already deleted itself uses a
\* stale handle: the kernel either gets away with it or faults.
EndDeleteTask ==
    /\ ~crashed
    /\ cpc = "end_task"
    /\ cpc' = "end_queue"
    /\ _taskHandle' = NULL
    /\ IF _taskHandle = NULL
         THEN UNCHANGED <<wpc, witem, wcode, wsuccess, respVars, crashed>>
         ELSE IF Alive(_taskHandle)
                THEN /\ wpc' = [wpc EXCEPT ![_taskHandle] = "deleted"]
                     /\ witem' = [witem EXCEPT ![_taskHandle] = NULL]
                     /\ wcode' = [wcode EXCEPT ![_taskHandle] = 0]
                     /\ wsuccess' = [wsuccess EXCEPT ![_taskHandle] = FALSE]
                     /\ wresponse' = [wresponse EXCEPT ![_taskHandle] = ""]
                     /\ http' = [http EXCEPT ![_taskHandle] = NoHttp]
                     /\ cbArgs' = [cbArgs EXCEPT ![_taskHandle] = NoArgs]
                     /\ wpolicy' = [wpolicy EXCEPT ![_taskHandle] = NoPolicy]
                     /\ wconf' = [wconf EXCEPT ![_taskHandle] = NoConf]
                     /\ crashed' = crashed
                ELSE /\ UNCHANGED <<wpc, witem, wcode, wsuccess, respVars>>
                     /\ crashed' \in {FALSE, TRUE}
    /\ UNCHANGED <<_running, _queue, q, _callback, nextTask, endSnap, frees, taken>>
    /\ UNCHANGED <<statVars, prodVars, execVars>>
    /\ UNCHANGED <<polVars, postedUnder, parse>>

\* end(): if (_queue != NULL) vQueueDelete(_queue);
EndDeleteQueue ==
    /\ ~crashed
    /\ cpc = "end_queue"
    /\ cpc' = "end_null"
    /\ IF _queue = "null"
         THEN UNCHANGED <<_queue, q, taken>>
         ELSE /\ _queue' = "freed"
              /\ q' = <<>>
              /\ taken' = [r \in Records |->
                    IF r \in Range(q) THEN Append(taken[r], "delete") ELSE taken[r]]
    /\ UNCHANGED <<_running, _taskHandle, _callback, nextTask, endSnap, frees, crashed>>
    /\ UNCHANGED <<statVars, prodVars, workVars, execVars>>
    /\ UNCHANGED <<polVars, postedUnder, parse>>

\* end(): _queue = NULL; return
EndNullQueue ==
    /\ ~crashed
    /\ cpc = "end_null"
    /\ _queue' = "null"
    /\ endSnap' = [NoSnap EXCEPT !.before = accepted]
    /\ cpc' = "idle"
    /\ UNCHANGED <<_running, q, _taskHandle, _callback, nextTask, frees, taken, crashed>>
    /\ UNCHANGED <<statVars, prodVars, workVars, execVars>>
    /\ UNCHANGED <<polVars, postedUnder, parse>>

\* setCallback(callback)
SetCallback(cb) ==
    /\ ~crashed
    /\ cpc = "idle"
    /\ ppc[Main] = "idle"
    /\ _callback' = cb
    /\ UNCHANGED <<_running, _queue, q, _taskHandle, cpc, nextTask, endSnap, frees,
                   taken, crashed>>
    /\ UNCHANGED <<statVars, prodVars, workVars, execVars>>
    /\ UNCHANGED <<polVars, postedUnder, parse>>

\* setTimeout(timeout)
SetTimeout(ms) ==
    /\ ~crashed
    /\ cpc = "idle"
    /\ ppc[Main] = "idle"
    /\ _httpTimeout' = ms
    /\ UNCHANGED <<_maxRedirects, _verifySSL, postedUnder, parse>>
    /\ UNCHANGED <<ctlVars, q, frees, taken, crashed>>
    /\ UNCHANGED <<statVars, prodVars, workVars, execVars>>

\* setMaxRedirects(maxRedirects)
SetMaxRedirects(n) ==
    /\ ~crashed
    /\ cpc = "idle"
    /\ ppc[Main] = "idle"
    /\ _maxRedirects' = n
    /\ UNCHANGED <<_httpTimeout, _verifySSL, postedUnder, parse>>
    /\ UNCHANGED <<ctlVars, q, frees, taken, crashed>>
    /\ UNCHANGED <<statVars, prodVars, workVars, execVars>>

\* setSSLVerification(verify)
SetSSLVerification(verify) ==
    /\ ~crashed
    /\ cpc = "idle"
    /\ ppc[Main] = "idle"
    /\ _verifySSL' = verify
    /\ UNCHANGED <<_httpTimeout, _maxRedirects, postedUnder, parse>>
    /\ UNCHANGED <<ctlVars, q, frees, taken, crashed>>
    /\ UNCHANGED <<statVars, prodVars, workVars, execVars>>

\* ---------------------------------------------------------- header parser
\* every variable but parse
queueVars == <<ctlVars, q, frees, taken, crashed, statVars, prodVars, workVars, execVars,
               polVars, postedUnder>>

\* performPost: "if (customHeaders != NULL && strlen(customHeaders) > 0)" and
\* the initialisation of startPos and endPos
ParseEnter ==
    /\ parse.pc = "guard"
    /\ parse' = EnterParse(parse)
    /\ UNCHANGED queueVars

\* performPost: the loop test and one turn of the header loop
ParseLoop ==
    /\ parse.pc = "loop"
    /\ parse' = IterateParse(parse)
    /\ UNCHANGED queueVars

\* -------------------------------------------------------------- producers
\* post() returns true exactly when its record joins `accepted`; every other
\* way back to "idle" is a return of false.

\* (variant) post() testing only "_queue == NULL"
PostCallQueueOnly(p) ==
    /\ ~crashed
    /\ ppc[p] = "idle"
    /\ p = Main => cpc = "idle"
    /\ ppc' = IF _queue = "null"
                THEN ppc
                ELSE [ppc EXCEPT ![p] = "space"]
    /\ UNCHANGED <<pitem, items, nextItem, accepted, q, frees, taken, crashed>>
    /\ UNCHANGED <<ctlVars, statVars, workVars, execVars>>
    /\ UNCHANGED <<polVars, postedUnder, parse>>

\* post(): "if (!_running || _queue == NULL) return false;"
PostCall(p) ==
    /\ ~crashed
    /\ ppc[p] = "idle"
    /\ p = Main => cpc = "idle"
    /\ ppc' = IF ~_running \/ _queue = "null"
                THEN ppc
                ELSE [ppc EXCEPT ![p] = "space"]
    /\ UNCHANGED <<pitem, items, nextItem, accepted, q, frees, taken, crashed>>
    /\ UNCHANGED <<ctlVars, statVars, workVars, execVars>>
    /\ UNCHANGED <<polVars, postedUnder, parse>>

\* post(): new PostItem(), strdup of url, payload and headers; when a copy
\* fails the partial item is released and post() returns false
PostAlloc(p) ==
    \/ /\ nextItem <= MaxRecords
       /\ pitem' = [pitem EXCEPT ![p] = nextItem]
       /\ items' = [items EXCEPT ![nextItem] = ItemOf(nextItem)]
       /\ nextItem' = nextItem + 1
       /\ ppc' = [ppc EXCEPT ![p] = "send"]
    \/ /\ ppc' = [ppc EXCEPT ![p] = "idle"]
       /\ UNCHANGED <<pitem, items, nextItem>>

\* post(): "if (uxQueueSpacesAvailable(_queue) == 0) return false;" and, when
\* there is room, the allocation of the item.
\* On a NULL handle the kernel asserts; on a deleted queue the count read
\* from the released memory is arbitrary.
PostCheckSpace(p) ==
    /\ ~crashed
    /\ ppc[p] = "space"
    /\ \/ /\ _queue = "live"
          /\ crashed' = crashed
          /\ IF SpacesAvailable(q) = 0
               THEN /\ ppc' = [ppc EXCEPT ![p] = "idle"]
                    /\ UNCHANGED <<pitem, items, nextItem>>
               ELSE PostAlloc(p)
       \/ /\ _queue = "freed"
          /\ crashed' = crashed
          /\ \/ /\ ppc' = [ppc EXCEPT ![p] = "idle"]
                /\ UNCHANGED <<pitem, items, nextItem>>
             \/ PostAlloc(p)
       \/ /\ _queue = "null"
          /\ crashed' = TRUE
          /\ UNCHANGED <<ppc, pitem, items, nextItem>>
    /\ UNCHANGED <<accepted, q, frees, taken>>
    /\ UNCHANGED <<ctlVars, statVars, workVars, execVars>>
    /\ UNCHANGED <<polVars, postedUnder, parse>>

\* (variant) post() returning false on a failed send without releasing the item
PostSendLeakOnFail(p) ==
    /\ ~crashed
    /\ ppc[p] = "send"
    /\ \/ /\ _queue = "live"
          /\ crashed' = crashed
          /\ IF QueueSendOk(q)
               THEN /\ q' = Append(q, pitem[p])
                    /\ accepted' = accepted \cup {pitem[p]}
                    /\ postedUnder' = [postedUnder EXCEPT ![pitem[p]] = _httpTimeout]
               ELSE UNCHANGED <<q, accepted, postedUnder>>
          /\ frees' = frees
          /\ ppc' = [ppc EXCEPT ![p] = "idle"]
          /\ pitem' = [pitem EXCEPT ![p] = NULL]
       \/ /\ _queue = "freed"
          /\ crashed' = crashed
          /\ \/ accepted' = accepted \cup {pitem[p]}
             \/ accepted' = accepted
          /\ frees' = frees
          /\ ppc' = [ppc EXCEPT ![p] = "idle"]
          /\ pitem' = [pitem EXCEPT ![p] = NULL]
          /\ UNCHANGED <<q, postedUnder>>
       \/ /\ _queue \in {"null", "freed"}
          /\ crashed' = TRUE
          /\ UNCHANGED <<ppc, pitem, q, accepted, frees, postedUnder>>
    /\ UNCHANGED <<items, nextItem, taken>>
    /\ UNCHANGED <<ctlVars, statVars, workVars, execVars>>
    /\ UNCHANGED <<polVars, parse>>

\* post(): "if (xQueueSend(_queue, &item, 0) != pdTRUE) { freePostItem(item);
\* return false; } return true;"
\* On a deleted queue the send writes into released memory: it reports
\* success (the record is stored nowhere), reports failure, or faults.
\* On a NULL handle the kernel asserts.
PostSend(p) ==
    /\ ~crashed
    /\ ppc[p] = "send"
    /\ \/ /\ _queue = "live"
          /\ crashed' = crashed
          /\ IF QueueSendOk(q)
               THEN /\ q' = Append(q, pitem[p])
                    /\ accepted' = accepted \cup {pitem[p]}
                    /\ postedUnder' = [postedUnder EXCEPT ![pitem[p]] = _httpTimeout]
                    /\ frees' = frees
               ELSE /\ frees' = FreePostItem(frees, pitem[p])
                    /\ UNCHANGED <<q, accepted, postedUnder>>
          /\ ppc' = [ppc EXCEPT ![p] = "idle"]
          /\ pitem' = [pitem EXCEPT ![p] = NULL]
       \/ /\ _queue = "freed"
          /\ crashed' = crashed
          /\ \/ /\ accepted' = accepted \cup {pitem[p]}
                /\ frees' = frees
             \/ /\ frees' = FreePostItem(frees, pitem[p])
                /\ accepted' = accepted
          /\ ppc' = [ppc EXCEPT ![p] = "idle"]
          /\ pitem' = [pitem EXCEPT ![p] = NULL]
          /\ UNCHANGED <<q, postedUnder>>
       \/ /\ _queue \in {"null", "freed"}
          /\ crashed' = TRUE
          /\ UNCHANGED <<ppc, pitem, q, accepted, frees, postedUnder>>
    /\ UNCHANGED <<items, nextItem, taken>>
    /\ UNCHANGED <<ctlVars, statVars, workVars, execVars>>
    /\ UNCHANGED <<polVars, parse>>

\* ----------------------------------------------------------------- worker
\* workerTask: "while (queue->_running)"
WorkerCheck(t) ==
    /\ ~crashed
    /\ wpc[t] = "check"
    /\ wpc' = [wpc EXCEPT ![t] = IF _running THEN "receive" ELSE "exit"]
    /\ UNCHANGED <<witem, wcode, wsuccess, respVars, q, frees, taken, crashed>>
    /\ UNCHANGED <<ctlVars, statVars, prodVars, execVars>>
    /\ UNCHANGED <<polVars, postedUnder, parse>>

\* (variant) the worker reading the head record without removing it (xQueuePeek)
WorkerReceivePeek(t) ==
    /\ ~crashed
    /\ wpc[t] = "receive"
    /\ _queue = "live"
    /\ IF q # <<>>
         THEN /\ witem' = [witem EXCEPT ![t] = Head(q)]
              /\ taken' = [taken EXCEPT ![Head(q)] = Append(@, "worker")]
              /\ wpc' = [wpc EXCEPT ![t] = "process"]
         ELSE /\ wpc' = [wpc EXCEPT ![t] = "check"]
              /\ UNCHANGED <<witem, taken>>
    /\ UNCHANGED <<wcode, wsuccess, respVars, frees, q, crashed>>
    /\ UNCHANGED <<ctlVars, statVars, prodVars, execVars>>
    /\ UNCHANGED <<polVars, postedUnder, parse>>

\* (variant) the worker taking the newest record instead of the oldest
WorkerReceiveNewest(t) ==
    /\ ~crashed
    /\ wpc[t] = "receive"
    /\ \/ /\ _queue = "live"
          /\ crashed' = crashed
          /\ IF q # <<>>
               THEN /\ witem' = [witem EXCEPT ![t] = q[Len(q)]]
                    /\ q' = SubSeq(q, 1, Len(q) - 1)
                    /\ taken' = [taken EXCEPT ![q[Len(q)]] = Append(@, "worker")]
                    /\ wpc' = [wpc EXCEPT ![t] = "process"]
               ELSE /\ wpc' = [wpc EXCEPT ![t] = "check"]
                    /\ UNCHANGED <<witem, q, taken>>
       \/ /\ _queue # "live"
          /\ crashed' = TRUE
          /\ UNCHANGED <<wpc, witem, q, taken>>
    /\ UNCHANGED <<wcode, wsuccess, respVars, frees>>
    /\ UNCHANGED <<ctlVars, statVars, prodVars, execVars>>
    /\ UNCHANGED <<polVars, postedUnder, parse>>

\* workerTask: "if (xQueueReceive(queue->_queue, &item, pdMS_TO_TICKS(100)) == pdTRUE)"
\* takes the head record; on an empty queue it times out, and the task goes
\* through "vTaskDelay(pdMS_TO_TICKS(10));" back to the loop test
WorkerReceive(t) ==
    /\ ~crashed
    /\ wpc[t] = "receive"
    /\ \/ /\ _queue = "live"
          /\ crashed' = crashed
          /\ IF q # <<>>
               THEN /\ witem' = [witem EXCEPT ![t] = Head(q)]
                    /\ q' = Tail(q)
                    /\ taken' = [taken EXCEPT ![Head(q)] = Append(@, "worker")]
                    /\ wpc' = [wpc EXCEPT ![t] = "process"]
               ELSE /\ wpc' = [wpc EXCEPT ![t] = "check"]
                    /\ UNCHANGED <<witem, q, taken>>
       \/ /\ _queue # "live"
          /\ crashed' = TRUE
          /\ UNCHANGED <<wpc, witem, q, taken>>
    /\ UNCHANGED <<wcode, wsuccess, respVars, frees>>
    /\ UNCHANGED <<ctlVars, statVars, prodVars, execVars>>
    /\ UNCHANGED <<polVars, postedUnder, parse>>

\* processPostItem: "_totalProcessed++;" and the call of performPost, which
\* reads _verifySSL, _httpTimeout and _maxRedirects to configure the transport,
\* adds the headers, and blocks the task in http.POST
WorkerProcess(t) ==
    /\ ~crashed
    /\ wpc[t] = "process"
    /\ _totalProcessed' = _totalProcessed + 1
    /\ started' = Append(started, witem[t])
    /\ wpolicy' = [wpolicy EXCEPT ![t] = PolicyInForce]
    /\ wconf' = [wconf EXCEPT ![t] = ConfOf(PolicyInForce, items[witem[t]])]
    /\ wpc' = [wpc EXCEPT ![t] = "perform"]
    /\ UNCHANGED <<_totalSuccessful, _totalFailed, completed, cbCalls, witem, wcode,
                   wsuccess, wresponse, http, cbArgs, q, frees, taken, crashed>>
    /\ UNCHANGED <<ctlVars, prodVars>>
    /\ UNCHANGED <<polVars, postedUnder, parse>>

\* (variant) processPostItem counting successes only
WorkerPerformNoFailCount(t) ==
    /\ ~crashed
    /\ wpc[t] = "perform"
    /\ \E h \in Transport :
          /\ http' = [http EXCEPT ![t] = h]
          /\ wcode' = [wcode EXCEPT ![t] = h.code]
          /\ wsuccess' = [wsuccess EXCEPT ![t] = IsSuccess(h.code)]
          /\ wresponse' = [wresponse EXCEPT ![t] = ResponseOf(h)]
          /\ _totalSuccessful' = IF IsSuccess(h.code) THEN _totalSuccessful + 1
                                 ELSE _totalSuccessful
    /\ _totalFailed' = _totalFailed
    /\ completed' = Append(completed, witem[t])
    /\ wpc' = [wpc EXCEPT ![t] = "callback"]
    /\ UNCHANGED <<_totalProcessed, started, cbCalls, witem, cbArgs, wpolicy, wconf, q,
                   frees, taken, crashed>>
    /\ UNCHANGED <<ctlVars, prodVars>>
    /\ UNCHANGED <<polVars, postedUnder, parse>>

\* (variant) a transport error taking the worker out of its loop
WorkerPerformAbortOnError(t) ==
    /\ ~crashed
    /\ wpc[t] = "perform"
    /\ \E h \in Transport :
          /\ http' = [http EXCEPT ![t] = h]
          /\ wcode' = [wcode EXCEPT ![t] = h.code]
          /\ wsuccess' = [wsuccess EXCEPT ![t] = IsSuccess(h.code)]
          /\ wresponse' = [wresponse EXCEPT ![t] = ResponseOf(h)]
          /\ IF IsSuccess(h.code)
               THEN /\ _totalSuccessful' = _totalSuccessful + 1
                    /\ _totalFailed' = _totalFailed
               ELSE /\ _totalFailed' = _totalFailed + 1
                    /\ _totalSuccessful' = _totalSuccessful
          /\ wpc' = [wpc EXCEPT ![t] = IF h.code < 0 THEN "exit" ELSE "callback"]
    /\ completed' = Append(completed, witem[t])
    /\ UNCHANGED <<_totalProcessed, started, cbCalls, witem, cbArgs, wpolicy, wconf, q,
                   frees, taken, crashed>>
    /\ UNCHANGED <<ctlVars, prodVars>>
    /\ UNCHANGED <<polVars, postedUnder, parse>>

\* performPost returns: httpCode = http.POST(jsonPayload), success iff 2xx,
\* response = http.getString() when a response was received;
\* processPostItem: "if (success) _totalSuccessful++; else _totalFailed++;"
WorkerPerform(t) ==
    /\ ~crashed
    /\ wpc[t] = "perform"
    /\ \E h \in Transport :
          /\ http' = [http EXCEPT ![t] = h]
          /\ wcode' = [wcode EXCEPT ![t] = h.code]
          /\ wsuccess' = [wsuccess EXCEPT ![t] = IsSuccess(h.code)]
          /\ wresponse' = [wresponse EXCEPT ![t] = ResponseOf(h)]
          /\ IF IsSuccess(h.code)
               THEN /\ _totalSuccessful' = _totalSuccessful + 1
                    /\ _totalFailed' = _totalFailed
               ELSE /\ _totalFailed' = _totalFailed + 1
                    /\ _totalSuccessful' = _totalSuccessful
    /\ completed' = Append(completed, witem[t])
    /\ wpc' = [wpc EXCEPT ![t] = "callback"]
    /\ UNCHANGED <<_totalProcessed, started, cbCalls, witem, cbArgs, wpolicy, wconf, q,
                   frees, taken, crashed>>
    /\ UNCHANGED <<ctlVars, prodVars>>
    /\ UNCHANGED <<polVars, postedUnder, parse>>

\* (variant) the callback handed a status code normalised to "0 on error"
CallbackArgsNormalised(t) == <<wsuccess[t], IF wcode[t] < 0 THEN 0 ELSE wcode[t], wresponse[t]>>

\* the arguments of "_callback(success, httpCode, response)"
CallbackArgs(t) == <<wsuccess[t], wcode[t], wresponse[t]>>

\* processPostItem: "if (_callback != NULL) _callback(success, httpCode, response);"
\* and return: httpCode, success and response go out of scope
WorkerCallback(t) ==
    /\ ~crashed
    /\ wpc[t] = "callback"
    /\ cbCalls' = IF _callback THEN cbCalls + 1 ELSE cbCalls
    /\ cbArgs' = [cbArgs EXCEPT ![t] = IF _callback THEN CallbackArgs(t) ELSE NoArgs]
    /\ wcode' = [wcode EXCEPT ![t] = 0]
    /\ wsuccess' = [wsuccess EXCEPT ![t] = FALSE]
    /\ wresponse' = [wresponse EXCEPT ![t] = ""]
    /\ wpc' = [wpc EXCEPT ![t] = "free"]
    /\ UNCHANGED <<started, completed, witem, http, wpolicy, wconf, q, frees, taken,
                   crashed>>
    /\ UNCHANGED <<ctlVars, statVars, prodVars>>
    /\ UNCHANGED <<polVars, postedUnder, parse>>

\* workerTask: "queue->freePostItem(item);" then "vTaskDelay(pdMS_TO_TICKS(10));"
\* and back to the loop test (item is dead until xQueueReceive writes it again)
WorkerFree(t) ==
    /\ ~crashed
    /\ wpc[t] = "free"
    /\ frees' = FreePostItem(frees, witem[t])
    /\ witem' = [witem EXCEPT ![t] = NULL]
    /\ http' = [http EXCEPT ![t] = NoHttp]
    /\ cbArgs' = [cbArgs EXCEPT ![t] = NoArgs]
    /\ wpolicy' = [wpolicy EXCEPT ![t] = NoPolicy]
    /\ wconf' = [wconf EXCEPT ![t] = NoConf]
    /\ wpc' = [wpc EXCEPT ![t] = "check"]
    /\ UNCHANGED <<wcode, wsuccess, wresponse, q, taken, crashed>>
    /\ UNCHANGED <<ctlVars, statVars, prodVars, execVars>>
    /\ UNCHANGED <<polVars, postedUnder, parse>>

\* workerTask: "vTaskDelete(NULL);" after the loop
WorkerExit(t) ==
    /\ ~crashed
    /\ wpc[t] = "exit"
    /\ wpc' = [wpc EXCEPT ![t] = "deleted"]
    /\ UNCHANGED <<witem, wcode, wsuccess, respVars, q, frees, taken, crashed>>
    /\ UNCHANGED <<ctlVars, statVars, prodVars, execVars>>
    /\ UNCHANGED <<polVars, postedUnder, parse>>

\* ------------------------------------------------------------------- Next
Controller ==
    \/ BeginAlready
    \/ BeginCall
    \/ BeginCreateQueue
    \/ BeginCreateTask
    \/ BeginFailDelete
    \/ BeginFailNull
    \/ BeginSetRunning
    \/ EndNotRunning
    \/ EndCall
    \/ EndClearStep
    \/ EndDeleteTask
    \/ EndDeleteQueue
    \/ EndNullQueue
    \/ ClearCall
    \/ ClearStep
    \/ \E cb \in BOOLEAN : SetCallback(cb)

Producer(p) ==
    \/ PostCall(p)
    \/ PostCheckSpace(p)
    \/ PostSend(p)

Worker(t) ==
    \/ WorkerCheck(t)
    \/ WorkerReceive(t)
    \/ WorkerProcess(t)
    \/ WorkerPerform(t)
    \/ WorkerCallback(t)
    \/ WorkerFree(t)
    \/ WorkerExit(t)

Next ==
    \/ Controller
    \/ \E p \in Producers : Producer(p)
    \/ \E t \in Tasks : Worker(t)

Spec == Init /\ [][Next]_vars

\* One session driven by a single caller context: begin(), setCallback() and
\* post() from Main, and the worker; no clear(), no end(), no other producer.
BeginSteps ==
    \/ BeginAlready
    \/ BeginCall
    \/ BeginCreateQueue
    \/ BeginCreateTask
    \/ BeginFailDelete
    \/ BeginFailNull
    \/ BeginSetRunning

NextSingleProducer ==
    \/ BeginSteps
    \/ \E cb \in BOOLEAN : SetCallback(cb)
    \/ Producer(Main)
    \/ \E t \in Tasks : Worker(t)

SpecSingleProducer == Init /\ [][NextSingleProducer]_vars

\* One session with every producer posting and clear() allowed, but no end().
NextNoEnd ==
    \/ BeginSteps
    \/ ClearCall
    \/ ClearStep
    \/ \E cb \in BOOLEAN : SetCallback(cb)
    \/ \E p \in Producers : Producer(p)
    \/ \E t \in Tasks : Worker(t)

SpecNoEnd == Init /\ [][NextNoEnd]_vars

\* One session driven by a single caller context that also calls the policy
\* setters: begin(), the four setters and post() from Main, and the worker.
NextPolicy ==
    \/ BeginSteps
    \/ \E cb \in BOOLEAN : SetCallback(cb)
    \/ \E ms \in Timeouts : SetTimeout(ms)
    \/ \E n \in RedirectLimits : SetMaxRedirects(n)
    \/ \E verify \in BOOLEAN : SetSSLVerification(verify)
    \/ Producer(Main)
    \/ \E t \in Tasks : Worker(t)

SpecPolicy == Init /\ [][NextPolicy]_vars

\* The single-producer session with the scheduler's guarantee that a ready
\* consumer task is eventually run and that every transport call returns.
SpecSingleProducerFair ==
    /\ Init
    /\ [][NextSingleProducer]_vars
    /\ \A t \in Tasks : WF_vars(Worker(t))

\* The steps of end() after its first statement.
EndSteps ==
    \/ EndClearStep
    \/ EndDeleteTask
    \/ EndDeleteQueue
    \/ EndNullQueue

\* Sessions driven by a single caller context that starts and stops the
\* worker: begin(), end() and post() from Main, and the worker.
NextLifecycle ==
    \/ BeginSteps
    \/ EndNotRunning
    \/ EndCall
    \/ EndSteps
    \/ Producer(Main)
    \/ \E t \in Tasks : Worker(t)

\* The same with a caller that, once inside end(), goes on to its return, and
\* a scheduler that eventually runs a ready consumer task.
SpecLifecycleFair ==
    /\ Init
    /\ [][NextLifecycle]_vars
    /\ WF_vars(EndSteps)
    /\ \A t \in Tasks : WF_vars(Worker(t))

\* performPost's header parsing, run on every customHeaders string of HeaderInputs
InitHeaders ==
    /\ InitQueue
    /\ parse \in {StartParse(h) : h \in HeaderInputs}

NextHeaders ==
    \/ ParseEnter
    \/ ParseLoop

SpecHeaders == InitHeaders /\ [][NextHeaders]_vars

\* The same with a task that keeps running while it is inside performPost.
SpecHeadersFair == InitHeaders /\ [][NextHeaders]_vars /\ WF_vars(NextHeaders)

TypeOK ==
    /\ _running \in BOOLEAN
    /\ _queue \in {"null", "live", "freed"}
    /\ q \in Seq(Records)
    /\ _taskHandle \in {NULL} \cup Tasks
    /\ _callback \in BOOLEAN
    /\ _totalProcessed \in Nat /\ _totalSuccessful \in Nat /\ _totalFailed \in Nat
    /\ crashed \in BOOLEAN

\* ----------------------------------------------------------------- claims
\* The worker is Stopped and no lifecycle call is in progress.
Stopped == cpc = "idle" /\ ~_running

\* The tasks that hold record r for execution.
Holders(r) == {t \in Tasks : Alive(t) /\ witem[t] = r}

\* The number of times record r occurs in sequence s.
Occurrences(s, r) == Cardinality({i \in 1..Len(s) : s[i] = r})

\* C1: in every reachable state, whatever the interleaving of the producers'
\* post() calls with the consumer's dequeues, getQueueSize() is at most the
\* capacity given at construction.
C1_QueueSizeWithinCapacity == getQueueSize <= Capacity /\ Len(q) <= Capacity

\* C1 witness: the queue is full while a producer that saw room earlier is
\* about to send.
C1_Witness == Len(q) = Capacity /\ _queue = "live" /\ \E p \in Producers : ppc[p] = "send"

\* C2: a post() that meets a full queue while Running (at its space test, or
\* at xQueueSend after losing a race) returns false: nothing is enqueued, no
\* record of it stays alive, and occupancy, order and the counters are as
\* before.
C2_FullPostRejected ==
    [][\A p \in Producers :
          (/\ ppc[p] \in {"space", "send"}
           /\ _running /\ _queue = "live" /\ Len(q) = Capacity
           /\ ppc'[p] # ppc[p])
          => /\ ppc'[p] = "idle"
             /\ accepted' = accepted
             /\ q' = q
             /\ nextItem' = nextItem
             /\ pitem[p] # NULL => frees'[pitem[p]] = 1
             /\ UNCHANGED statVars]_vars

\* C2 witness: a producer stands at the space test of post() with the worker
\* Running and the queue holding exactly Capacity records.
C2_Witness ==
    \E p \in Producers :
       ppc[p] = "space" /\ _running /\ _queue = "live" /\ Len(q) = Capacity

\* C3: a post() issued while the worker is Stopped does not get past its
\* first test: it constructs and enqueues nothing and changes no state.
C3_StoppedPostRejected ==
    [][\A p \in Producers :
          (ppc[p] = "idle" /\ ~_running)
          => (ppc'[p] = "idle" /\ pitem'[p] = pitem[p])]_vars

\* C3 witness: after a session that accepted records has been ended, a
\* producer is idle (free to call post()) and the worker is Stopped.
C3_Witness ==
    /\ Stopped
    /\ accepted # {}
    /\ _queue = "null"
    /\ \E p \in Producers : p # Main /\ ppc[p] = "idle"

\* C4: when the worker is Running and the queue has room at the instant of
\* xQueueSend, post() returns true and the queue grows by exactly the new
\* record, at the tail.
C4_PostAcceptedAtTail ==
    [][\A p \in Producers :
          (/\ ppc[p] = "send"
           /\ _running /\ Len(q) < Capacity
           /\ ppc'[p] # ppc[p])
          => /\ ppc'[p] = "idle"
             /\ q' = Append(q, pitem[p])
             /\ accepted' = accepted \cup {pitem[p]}
             /\ frees'[pitem[p]] = 0]_vars

\* C4 witness: the scenario with a stalled consumer: records 1..Capacity were
\* accepted, the consumer took record 1 and is blocked in the transport, and
\* the post made after that was accepted at the tail of the again-full queue.
C4_Witness ==
    /\ _running
    /\ Len(q) = Capacity
    /\ q[Len(q)] = Capacity + 1
    /\ started = <<1>>
    /\ \E t \in Tasks : wpc[t] = "perform" /\ witem[t] = 1

\* C5: in every state after end() has returned and before a later begin(),
\* getQueueSize() is 0 and the consumer executes nothing: no execution
\* starts, no counter changes, no callback fires.
C5_NothingRunsAfterEnd ==
    [][/\ Stopped
          => /\ getQueueSize = 0
             /\ started' = started
             /\ completed' = completed
             /\ cbCalls' = cbCalls
             /\ UNCHANGED statVars
       /\ Stopped' => getQueueSize' = 0]_vars

\* C5 witness: end() has returned after destroying a queued record, and a
\* record had been executed before.
C5_Witness ==
    /\ Stopped
    /\ \E r \in Records : taken[r] = <<"end">>
    /\ _totalProcessed > 0

\* C6: a record that is in the queue when end() is called is never handed
\* to processPostItem: totalProcessed is not incremented for it.
C6_QueuedAtEndNeverExecuted == \A r \in endSnap.queued : r \notin Range(started)

\* C7: end() does not interrupt a request in flight: a record that was being
\* executed when end() was called is still held by the living consumer until
\* its outcome has been counted and the record destroyed.
C7_InFlightRunsToCompletion ==
    \A r \in endSnap.inflight :
       \/ Holders(r) # {}
       \/ r \in Range(completed) /\ frees[r] = 1

\* C8: every record for which post() returned true is destroyed exactly
\* once: never freed twice, and once end() has returned none is left
\* allocated.
C8_AcceptedDestroyedExactlyOnce ==
    /\ \A r \in Records : frees[r] <= 1
    /\ Stopped => \A r \in accepted : frees[r] = 1

BeginPcs == {"begin_queue", "begin_task", "begin_fail_delete", "begin_fail_null", "begin_run"}
EndPcs == {"end_clear", "end_task", "end_queue", "end_null"}

\* C11: across every step each of totalProcessed, totalSuccessful and
\* totalFailed keeps its value or grows by exactly one, and a step that
\* changes one of them is a step of a consumer task inside processPostItem
\* (no lifecycle call and no post() changes them).
C11_CountersStepByOne ==
    [][/\ _totalProcessed' \in {_totalProcessed, _totalProcessed + 1}
       /\ _totalSuccessful' \in {_totalSuccessful, _totalSuccessful + 1}
       /\ _totalFailed' \in {_totalFailed, _totalFailed + 1}
       /\ statVars' # statVars
            => /\ \E t \in Tasks : wpc[t] \in {"process", "perform"} /\ wpc'[t] # wpc[t]
               /\ cpc' = cpc /\ ppc' = ppc /\ _running' = _running]_vars

\* C11 witness: in a second session (after an end() and a begin()) the
\* counters stand at values built up by a success and a failure.
C11_Witness ==
    /\ nextTask > 2
    /\ _running
    /\ _totalProcessed >= 2 /\ _totalSuccessful >= 1 /\ _totalFailed >= 1

\* C12: from the call of end() to the return of the following begin() the
\* three counters keep the values they had when end() was called, provided
\* the consumer held no record at that call.
C12_StopStartKeepsCounters ==
    [][((cpc \in EndPcs \cup BeginPcs \/ Stopped) /\ endSnap.held = {})
          => UNCHANGED statVars]_vars

\* C13: begin() called while the worker is Running returns at its first
\* statement: from a Running state no step enters the body of begin(), so
\* no second queue is allocated (_queue keeps its handle), no second
\* consumer is spawned (nextTask, _taskHandle and the set of tasks are as
\* before), and the call itself changes no variable.
C13_BeginWhileRunningNoOp ==
    [][(cpc = "idle" /\ _running)
          => /\ cpc' \notin BeginPcs
             /\ nextTask' = nextTask
             /\ _taskHandle' = _taskHandle
             /\ _queue' = _queue
             /\ \A t \in Tasks : wpc[t] = "none" => wpc'[t] = "none"]_vars

\* C13 witness: the worker is Running with a full queue, a callback set and
\* a record already processed; begin() may be called here.
C13_Witness ==
    /\ cpc = "idle" /\ ppc[Main] = "idle" /\ _running
    /\ Len(q) = Capacity
    /\ _callback
    /\ _totalProcessed > 0

\* C14: end() (or the destructor) called while the worker is Stopped returns
\* at its first statement: from a Stopped state no step enters the body of
\* end(), no task and no queue is deleted, and the call changes no variable.
C14_EndWhileStoppedNoOp ==
    [][Stopped
          => /\ cpc' \notin EndPcs
             /\ wpc' = wpc
             /\ _taskHandle' = _taskHandle
             /\ _queue' = _queue
             /\ _running' = _running]_vars

\* C14 witness: the worker is Stopped after a session that accepted a record
\* was ended: its task is deleted and its queue handle is NULL.
C14_Witness ==
    /\ Stopped /\ ppc[Main] = "idle"
    /\ nextTask = 2
    /\ wpc[1] = "deleted"
    /\ _taskHandle = NULL /\ _queue = "null"
    /\ accepted # {}

\* C15: a begin() that returns false (xQueueCreate failed, or xTaskCreate
\* failed after the queue was created) leaves the worker Stopped with _queue
\* NULL, an empty queue and no living consumer, and spawned no task; on the
\* second path the queue has been deleted before the handle is cleared.
C15_FailedBeginLeavesStopped ==
    [][/\ (cpc \in BeginPcs /\ cpc' = "idle" /\ ~_running')
            => /\ _queue' = "null"
               /\ q' = <<>>
               /\ \A t \in Tasks : wpc'[t] \in {"none", "deleted"}
               /\ nextTask' = nextTask
       /\ cpc = "begin_fail_null" => _queue = "freed"]_vars

\* C15 witness: xTaskCreate has failed after xQueueCreate succeeded and the
\* queue has been deleted; begin() is about to return false.
C15_Witness ==
    /\ cpc = "begin_fail_null"
    /\ _queue = "freed"
    /\ ~_running
    /\ \A t \in Tasks : ~Alive(t)

\* C16: for every status code the transport returns, the record is
\* classified successful iff 200 <= code < 300; totalSuccessful grows by one
\* exactly on success and totalFailed exactly on failure, and the boolean
\* the callback receives is that same classification.
C16_SuccessIffTwoXX ==
    [][\A t \in Tasks :
          /\ (wpc[t] = "perform" /\ wpc'[t] = "callback")
                => LET c == http'[t].code
                       ok == 200 <= c /\ c < 300
                   IN  /\ wsuccess'[t] = ok
                       /\ _totalSuccessful' = _totalSuccessful + (IF ok THEN 1 ELSE 0)
                       /\ _totalFailed' = _totalFailed + (IF ok THEN 0 ELSE 1)
          /\ (wpc[t] = "callback" /\ wpc'[t] = "free" /\ _callback)
                => cbArgs'[t][1] = (200 <= http[t].code /\ http[t].code < 300)]_vars

\* C16 witness: the callback has just been invoked for a 201, after an
\* earlier record was counted as failed.
C16_Witness ==
    \E t \in Tasks :
       /\ wpc[t] = "free"
       /\ http[t].code = 201
       /\ cbArgs[t] # NoArgs /\ cbArgs[t][1] = TRUE
       /\ _totalSuccessful = 1 /\ _totalFailed = 1

C18_SingleProducerFIFO ==
    /\ \A i, j \in 1..Len(started) : i < j => started[i] < started[j]
    /\ \A i, j \in 1..Len(q) : i < j => q[i] < q[j]
    /\ \A a, b \in accepted :
          (a < b /\ (b \in Range(started) \/ Holders(b) # {})) => a \in Range(completed)

\* C18 witness: two records have been executed in turn while a third waits
\* in the queue.
C18_Witness ==
    /\ Len(completed) = 2
    /\ started = <<1, 2>>
    /\ q = <<3>>

\* C19: in every reachable state at most one consumer task exists and at most
\* one record is held for execution or being executed against the transport.
C19_OneConsumerOneInFlight ==
    /\ Cardinality({t \in Tasks : Alive(t)}) <= 1
    /\ Cardinality({t \in Tasks : wpc[t] = "perform"}) <= 1
    /\ Cardinality(Held) <= 1

\* C19 witness: the consumer of a second session is executing a record after
\* the consumer of the first session was deleted by end().
C19_Witness ==
    /\ wpc[1] = "deleted"
    /\ wpc[2] = "perform"
    /\ _totalProcessed >= 2

\* C20: with producers racing each other and the consumer (and clear()), a
\* send is accepted exactly when the queue has a free slot at that instant,
\* so no more posts return true than there were free slots; a post that
\* returns false after building its record has freed it; and the records in
\* the queue are exactly the accepted records not yet dequeued.
C20_RacingPostsAccountedFor ==
    /\ [](/\ Len(q) <= Capacity
          /\ Range(q) = {r \in accepted : taken[r] = <<>>}
          /\ \A r \in Records : Occurrences(q, r) <= 1
          /\ \A r \in 1..(nextItem - 1) :
                (r \notin accepted /\ \A p \in Producers : pitem[p] # r) => frees[r] = 1
          /\ \A p \in Producers : pitem[p] # NULL => frees[pitem[p]] = 0)
    /\ [][\A p \in Producers :
             (ppc[p] = "send" /\ ppc'[p] = "idle")
                => IF Len(q) < Capacity
                     THEN accepted' = accepted \cup {pitem[p]} /\ q' = Append(q, pitem[p])
                     ELSE accepted' = accepted /\ q' = q /\ frees'[pitem[p]] = 1]_vars

\* C20 witness: two producers raced for the last free slot: the queue is
\* full, one of the racing posts was accepted, the other was rejected and
\* its record freed, and both have returned.
C20_Witness ==
    /\ Len(q) = Capacity
    /\ Cardinality(accepted) = Capacity
    /\ \A p \in Producers : ppc[p] = "idle"
    /\ \E r \in Records : r < nextItem /\ r \notin accepted /\ frees[r] = 1

\* C21: the policy applied to a record is the one in force when the record
\* began execution: while the request is in flight no setter changes the
\* transport configuration made for it, and the callback is invoked for it
\* exactly if a callback was set when its execution began.
C21_PolicyFixedAtStart ==
    [][\A t \in Tasks :
          /\ (wpc[t] \in {"perform", "callback"} /\ wpc'[t] \in {"perform", "callback"})
                => wconf'[t] = wconf[t]
          /\ (wpc[t] = "callback" /\ wpc'[t] = "free")
                => ((cbArgs'[t] # NoArgs) <=> wpolicy[t].callback)]_vars

\* C22: a record that has not begun execution is executed under the policy
\* values standing when it begins, not those of its post(): the transport
\* is configured from the current _httpTimeout, _maxRedirects and _verifySSL,
\* and the callback decision is taken from the current _callback.
C22_LatestPolicyAtStart ==
    [][\A t \in Tasks :
          /\ (wpc[t] = "process" /\ wpc'[t] = "perform")
                => /\ wconf'[t].timeout = _httpTimeout
                   /\ wconf'[t].limit = _maxRedirects
                   /\ wconf'[t].follow = (_maxRedirects > 0)
                   /\ wconf'[t].secure = UseSSL(witem[t])
                   /\ wconf'[t].insecure = (UseSSL(witem[t]) /\ ~_verifySSL)
          /\ (wpc[t] = "callback" /\ wpc'[t] = "free")
                => ((cbArgs'[t] # NoArgs) <=> _callback)]_vars

\* C22 witness: a record is in flight under a timeout other than the one
\* that stood when post() enqueued it.
C22_Witness ==
    \E t \in Tasks :
       /\ wpc[t] = "perform"
       /\ postedUnder[witem[t]] # 0
       /\ wconf[t].timeout # postedUnder[witem[t]]

\* C23: on an object on which setSSLVerification was never called (no
\* behaviour of Spec calls it) no TLS request is executed with certificate
\* validation skipped.
C23_TLSValidatedByDefault ==
    \A t \in Tasks : wconf[t].secure => ~wconf[t].insecure

\* The lines of a header string: the text between newlines, the text after
\* the last newline included.
RECURSIVE SplitLines(_)
SplitLines(s) ==
    IF \A i \in 1..Len(s) : s[i] # NL
      THEN <<s>>
      ELSE LET i == CHOOSE k \in 1..Len(s) : s[k] = NL /\ \A j \in 1..(k - 1) : s[j] # NL
           IN  <<SubSeq(s, 1, i - 1)>> \o SplitLines(SubSeq(s, i + 1, Len(s)))

\* s without its leading and trailing whitespace.
RECURSIVE Strip(_)
Strip(s) ==
    IF s = <<>> THEN s
    ELSE IF s[1] \in {" ", NL} THEN Strip(Tail(s))
    ELSE IF s[Len(s)] \in {" ", NL} THEN Strip(SubSeq(s, 1, Len(s) - 1))
    ELSE s

\* The header a line stands for, if any: name and value around its first colon.
LineHeader(l) ==
    IF \A i \in 1..Len(l) : l[i] # ":"
      THEN <<>>
      ELSE LET c == CHOOSE k \in 1..Len(l) : l[k] = ":" /\ \A j \in 1..(k - 1) : l[j] # ":"
           IN  IF Strip(SubSeq(l, 1, c - 1)) = <<>>
                 THEN <<>>
                 ELSE <<<<Strip(SubSeq(l, 1, c - 1)), Strip(SubSeq(l, c + 1, Len(l)))>>>>

RECURSIVE HeadersOfLines(_)
HeadersOfLines(ls) ==
    IF ls = <<>> THEN <<>> ELSE LineHeader(Head(ls)) \o HeadersOfLines(Tail(ls))

\* C24: for every custom-header string the headers applied are exactly, in
\* order, one per line that has a colon and a non-empty trimmed name, split
\* at the first colon and trimmed; other lines are skipped, the last line
\* needs no newline, and the four-line example yields X-A=1, X-B=two words,
\* X-C=3.
C24_HeadersParsedPerLine ==
    parse.pc = "done"
       => /\ parse.applied = HeadersOfLines(SplitLines(parse.headers))
          /\ parse.headers = ExampleHeaders
                => parse.applied =
                      << <<<<"X", "-", "A">>, <<"1">>>>,
                         <<<<"X", "-", "B">>, <<"t", "w", "o", " ", "w", "o", "r", "d", "s">>>>,
                         <<<<"X", "-", "C">>, <<"3">>>> >>

\* C24 witness: the parse of the four-line example has finished with three
\* headers applied.
C24_Witness ==
    /\ parse.pc = "done"
    /\ parse.headers = ExampleHeaders
    /\ Len(parse.applied) = 3

\* C25: while the worker stays Running with no end() and no clear(), and
\* with a fairly scheduled consumer whose transport calls return, every
\* record for which post() returned true is eventually handed to
\* processPostItem.
C25_AcceptedEventuallyExecuted ==
    \A r \in Records : (r \in accepted) ~> (r \in Range(started))

\* The statement of workerTask that follows statement pc of an execution.
NextOf(pc) == IF pc = "perform" THEN "callback" ELSE IF pc = "callback" THEN "free" ELSE "check"

\* C26: a failed execution or a malformed header line never stops the
\* consumer: the request for the record with the malformed line is made with
\* its well-formed header; each step of an execution leads to the next
\* statement of the loop with the worker still Running, the queue untouched
\* and a failure counted in totalFailed only; and after a failure the record
\* at the head of the queue is eventually executed.
C26_FailureNeverStopsConsumer ==
    /\ [](\A t \in Tasks :
             (wpc[t] = "perform" /\ witem[t] = 2)
                => wconf[t].headers = << <<<<"a">>, <<"a">>>> >>)
    /\ [][\A t \in Tasks :
             (wpc[t] \in {"perform", "callback", "free"} /\ wpc'[t] # wpc[t])
                => /\ wpc'[t] = NextOf(wpc[t])
                   /\ _running' = _running
                   /\ crashed' = crashed
                   /\ q' = q
                   /\ _totalProcessed' = _totalProcessed
                   /\ (wpc[t] = "perform" /\ ~wsuccess'[t])
                         => /\ _totalFailed' = _totalFailed + 1
                            /\ _totalSuccessful' = _totalSuccessful]_vars
    /\ \A r \in Records :
          (/\ q # <<>> /\ Head(q) = r
           /\ \E t \in Tasks : wpc[t] = "callback" /\ ~wsuccess[t])
             ~> (r \in Range(started))

\* C26 witness: two executions have failed, among them the one of the record
\* with the malformed header line, and the consumer has gone on to the third
\* record.
C26_Witness ==
    /\ _running
    /\ _totalFailed = 2
    /\ started = <<1, 2, 3>>

\* A step of clear()'s drain loop: it removes a record or returns.
ClearTurn ==
    /\ cpc = "clear_loop"
    /\ \/ cpc' = "idle"
       \/ \E r \in Records : taken'[r] = Append(taken[r], "clear")

\* C27: every step of clear() either removes the record at the head of the
\* queue and destroys it, unexecuted, or finds the queue empty and returns
\* (getQueueSize() is 0 at the return); it leaves the running flag, the queue
\* and task handles, the callback, the three counters, the policy, the
\* worker's locals (the record in flight among them) and the executions made
\* unchanged; a record removed by clear() is destroyed exactly once and is
\* never executed; and after the return a post() that finds the worker
\* Running and room in the queue is accepted.
C27_ClearDropsQueuedOnly ==
    /\ [](\A r \in Records :
             "clear" \in Range(taken[r])
                => /\ taken[r] = <<"clear">>
                   /\ frees[r] = 1
                   /\ r \notin Range(started)
                   /\ r \notin Held)
    /\ [][ClearTurn
             => /\ UNCHANGED <<_running, _queue, _taskHandle, _callback>>
                /\ UNCHANGED <<statVars, polVars, workVars, execVars, prodVars>>
                /\ IF q = <<>>
                     THEN /\ cpc' = "idle"
                          /\ getQueueSize' = 0
                          /\ UNCHANGED <<q, frees, taken>>
                     ELSE /\ cpc' = "clear_loop"
                          /\ q' = Tail(q)
                          /\ frees[Head(q)] = 0
                          /\ frees' = [frees EXCEPT ![Head(q)] = 1]
                          /\ Head(q) \notin Range(started)]_vars
    /\ [][\A p \in Producers :
             (/\ ppc[p] = "send" /\ ppc'[p] # "send"
              /\ _queue = "live" /\ Len(q) < Capacity
              /\ \E r \in Records : "clear" \in Range(taken[r]))
                => /\ pitem[p] \in accepted'
                   /\ q' = Append(q, pitem[p])]_vars

\* C27 witness: clear() has returned with the worker Running after removing
\* record 2 while record 1 was in flight; record 1 is still in flight and a
\* later post of record 3 has been accepted.
C27_Witness ==
    /\ cpc = "idle"
    /\ _running
    /\ taken[2] = <<"clear">>
    /\ frees[2] = 1
    /\ q = <<3>>
    /\ 3 \in accepted
    /\ \E t \in Tasks : wpc[t] = "perform" /\ witem[t] = 1

\* The statements of workerTask inside its loop.
LoopPcs == {"check", "receive", "process", "perform", "callback", "free"}

\* C28: whenever begin() has returned true and end() has not been called
\* since, the consumer task spawned by that begin() is alive and inside its
\* loop, however the new task was scheduled relative to begin().
C28_ConsumerAliveWhileRunning ==
    (_running /\ cpc \in {"idle", "clear_loop"})
       => /\ _taskHandle # NULL
          /\ wpc[_taskHandle] \in LoopPcs

\* C29: from the moment performPost has returned for a record until the
\* record is released, the record is counted in totalProcessed and in exactly
\* one of totalSuccessful/totalFailed and is still alive; the callback is
\* invoked only in that interval (so getStats() inside the callback counts the
\* record reported), the counters do not move during the invocation, and the
\* record is released only after it.
C29_CountThenCallbackThenDestroy ==
    /\ [](\A t \in Tasks :
             /\ wpc[t] \in {"callback", "free"}
                   => /\ witem[t] \in Range(started)
                      /\ Occurrences(completed, witem[t]) = 1
                      /\ _totalProcessed = Len(started)
                      /\ _totalSuccessful + _totalFailed = Len(completed)
                      /\ frees[witem[t]] = 0
             /\ wpc[t] \in {"process", "perform"}
                   => /\ witem[t] \notin Range(completed)
                      /\ cbArgs[t] = NoArgs
             /\ cbArgs[t] # NoArgs => wpc[t] = "free")
    /\ [][/\ cbCalls' # cbCalls
               => /\ cbCalls' = cbCalls + 1
                  /\ \E t \in Tasks : wpc[t] = "callback" /\ wpc'[t] = "free"
                  /\ UNCHANGED <<statVars, frees, started, completed>>
          /\ \A t \in Tasks :
               (wpc[t] \in {"perform", "callback", "free"} /\ wpc'[t] \in LoopPcs
                   /\ wpc'[t] # wpc[t])
                  => /\ wpc'[t] = NextOf(wpc[t])
                     /\ wpc[t] = "free" <=> frees' # frees
                     /\ wpc[t] = "perform" <=> completed' # completed]_vars

\* C29 witness: the callback has just been invoked for the second record
\* executed, which is counted and not yet released.
C29_Witness ==
    \E t \in Tasks :
       /\ wpc[t] = "free"
       /\ cbArgs[t] # NoArgs
       /\ _totalProcessed = 2
       /\ _totalSuccessful + _totalFailed = 2
       /\ frees[witem[t]] = 0

\* C30: the callback is invoked once, by the step that follows the return of
\* performPost, for every record whose execution completed with a callback
\* set, and not at all with none set; no other step invokes it, so a record
\* removed by clear() or end() gets none; and the number of invocations never
\* exceeds totalProcessed.
C30_CallbackOncePerExecution ==
    [][/\ cbCalls' \in {cbCalls, cbCalls + 1}
       /\ cbCalls' <= _totalProcessed'
       /\ \A t \in Tasks :
            /\ (wpc[t] = "callback" /\ wpc'[t] # "callback")
                  => cbCalls' = cbCalls + (IF _callback THEN 1 ELSE 0)
            /\ (wpc[t] # "callback" /\ wpc'[t] # wpc[t]) => cbCalls' = cbCalls]_vars

Live(r) == r < nextItem /\ frees[r] = 0

\* The number of places record r is in: under construction in a post() call,
\* in the queue, held by a consumer task.
Owners(r) ==
    Cardinality({p \in Producers : ppc[p] = "send" /\ pitem[p] = r})
       + Occurrences(q, r) + Cardinality(Holders(r))

\* C32: every live record is in exactly one place (under construction in a
\* post() call, in the queue, or held by the consumer), and no record is
\* removed from the queue by more than one of the consumer, clear() and
\* end().
C32_ExactlyOneOwner ==
    \A r \in Records :
       /\ Live(r) => Owners(r) = 1
       /\ Len(taken[r]) <= 1

\* No record ever has two owners, and none is removed from the queue twice.
AtMostOneOwner ==
    \A r \in Records :
       /\ Owners(r) <= 1
       /\ Len(taken[r]) <= 1

\* C33: a consumer that reads the running flag false leaves its loop and
\* deletes itself (unless end() deletes it first); a terminated consumer never runs again; when end() returns
\* no consumer task exists and the queue has been released; and once end()
\* has been called every consumer task eventually terminates.
C33_ConsumerTerminatesAfterEnd ==
    /\ [][\A t \in Tasks :
             /\ (wpc[t] = "check" /\ ~_running /\ wpc'[t] # "check")
                   => wpc'[t] \in {"exit", "deleted"}
             /\ (wpc[t] = "exit" /\ wpc'[t] # "exit") => wpc'[t] = "deleted"
             /\ wpc[t] = "deleted" => wpc'[t] = "deleted"]_vars
    /\ [][(cpc = "end_null" /\ cpc' = "idle")
             => /\ \A t \in Tasks : wpc'[t] \in {"none", "deleted"}
                /\ _taskHandle' = NULL
                /\ _queue = "freed"
                /\ _queue' = "null"
                /\ q' = <<>>]_vars
    /\ (cpc \in EndPcs) ~> (\A t \in Tasks : wpc[t] \in {"none", "deleted"})

\* C33 witness: end() has returned after a session in which the consumer
\* executed a record; the consumer task of the session is terminated.
C33_Witness ==
    /\ cpc = "idle"
    /\ ~_running
    /\ _queue = "null"
    /\ wpc[1] = "deleted"
    /\ completed = <<1>>

\* The consumer tasks that are alive and inside the loop of workerTask.
Consumers == {t \in Tasks : wpc[t] \in LoopPcs}

\* C34: in a begin() that follows an end(), the queue created is empty with
\* all of its capacity free; when that begin() returns the worker is Running
\* with a live queue and exactly one consumer task inside its loop, the one
\* whose handle is stored; and no record accepted before the last end()
\* returned starts execution afterwards.
C34_RestartGivesFreshWorker ==
    /\ [][(cpc = "begin_queue" /\ cpc' = "begin_task" /\ nextTask > 1)
             => /\ _queue' = "live"
                /\ q' = <<>>
                /\ SpacesAvailable(q') = Capacity]_vars
    /\ [][(cpc = "begin_run" /\ cpc' = "idle" /\ nextTask > 2)
             => /\ _running'
                /\ _queue' = "live"
                /\ Consumers' = {_taskHandle'}]_vars
    /\ [][\A r \in Records :
             started' = Append(started, r) => r \notin endSnap.before]_vars

\* C35: while the running flag is set the queue is live, getQueueSize() is
\* the number of records queued, isEmpty() is true iff that number is 0 and
\* isFull() is true iff it equals the capacity; while Stopped getQueueSize()
\* is 0, isEmpty() is true and isFull() is false.
C35_ObserversAgreeWithQueue ==
    /\ _running
          => /\ _queue = "live"
             /\ getQueueSize = Len(q)
             /\ isEmpty <=> getQueueSize = 0
             /\ isFull <=> getQueueSize = Capacity
             /\ ~(isEmpty /\ isFull)
    /\ Stopped
          => /\ getQueueSize = 0
             /\ isEmpty
             /\ ~isFull

\* C35 witness: the worker is Running with a full queue: isFull() is true
\* and isEmpty() is false.
C35_Witness ==
    /\ _running
    /\ cpc = "idle"
    /\ Len(q) = Capacity
    /\ isFull
    /\ ~isEmpty

\* C36: end() deletes a task only through a handle that refers to a task
\* that still exists; a task that has deleted itself is never deleted again;
\* and each consumer task created is terminated by exactly one party, itself
\* or end().
C36_TaskDeletedOnce ==
    [][/\ (cpc = "end_task" /\ cpc' = "end_queue" /\ _taskHandle # NULL)
             => Alive(_taskHandle)
       /\ \A t \in Tasks :
             (wpc[t] # "deleted" /\ wpc'[t] = "deleted")
                => \/ wpc[t] = "exit" /\ cpc' = cpc
                   \/ cpc = "end_task" /\ _taskHandle = t /\ Alive(t)]_vars

\* C37: every statement of post() that uses the queue handle finds a live
\* queue, never one that end() has deleted or set to NULL; end() deletes the
\* queue only when it is empty; and a record whose post() returned true is
\* in the queue, with a consumer, or destroyed, never stored nowhere.
C37_PostNeverUsesReleasedQueue ==
    /\ [][\A p \in Producers :
             (ppc[p] \in {"space", "send"} /\ <<ppc[p], pitem[p]>>' # <<ppc[p], pitem[p]>>)
                => _queue = "live"]_vars
    /\ [][(cpc = "end_queue" /\ cpc' = "end_null") => q = <<>>]_vars
    /\ [](\A r \in accepted :
             \/ r \in Range(q)
             \/ r \in Held
             \/ frees[r] > 0
             \/ r \in Range(started))

\* C38: whenever neither begin() nor end() is executing, the running flag is
\* set iff a queue is allocated iff a task handle is stored; in the Stopped
\* state the queue handle and the task handle are both NULL.
C38_LifecycleFieldsAgree ==
    cpc \in {"idle", "clear_loop"}
       => /\ _running <=> _queue # "null"
          /\ _running <=> _taskHandle # NULL
          /\ _running => _queue = "live"
          /\ ~_running => (_queue = "null" /\ _taskHandle = NULL)

\* C38 witness: the worker has been stopped and started again and its caller
\* is inside clear(): the flag is set, the second task's handle is stored and
\* the queue is live with a record in it.
C38_Witness ==
    /\ cpc = "clear_loop"
    /\ _running
    /\ _queue = "live"
    /\ _taskHandle = 2
    /\ q # <<>>

\* The number of newline characters of a header string.
Newlines(h) == Cardinality({i \in 1..Len(h) : h[i] = NL})

\* C39: the header loop terminates on every header string: every turn of the
\* loop either leaves the loop or moves startPos strictly forward, endPos
\* never falls behind startPos while a newline is pending, the body is
\* executed at most once per newline plus once, not at all for the empty
\* string, and the end of the parsing is always reached.
C39_HeaderLoopTerminates ==
    /\ [](/\ parse.turns <= Newlines(parse.headers) + 1
          /\ parse.headers = <<>> => parse.turns = 0
          /\ (parse.pc = "loop" /\ parse.endPos >= 0) => parse.endPos >= parse.startPos)
    /\ [][parse.pc = "loop"
             => \/ parse'.pc = "done"
                \/ /\ parse'.pc = "loop"
                   /\ parse'.startPos > parse.startPos
                   /\ parse'.turns = parse.turns + 1]_vars
    /\ <>(parse.pc = "done")

\* C39 witness: the parse of a string of newlines only has ended after as
\* many turns as it has newlines.
C39_Witness ==
    /\ parse.pc = "done"
    /\ parse.headers = <<NL, NL, NL>>
    /\ parse.turns = 3

====
